---- MODULE Spec2Model ----
(***************************************************************************)
(* Sales analytics pipeline: parse_transactions, validate_and_filter       *)
(* (utils/file_handler.py), the aggregation functions                      *)
(* (utils/data_processor.py) and enrich_sales_data (utils/api_handler.py). *)
(*                                                                         *)
(* Representation.  A Python str is a sequence of one-character strings,   *)
(* so that split, strip, replace, startswith, isdigit, int() and float()   *)
(* are computed character by character.  A Python float is nan, inf, -inf  *)
(* or a finite value held exactly in hundredths (45.0 is 4500): float()    *)
(* reads "nan" and "inf", and every comparison with nan is false.  Binary  *)
(* rounding error of finite values is not modelled.                        *)
(***************************************************************************)
EXTENDS Integers, Sequences, FiniteSets, TLC

VARIABLES
    raw_lines,           \* the lines read_sales_data returned
    transactions,        \* the list parse_transactions returned
    filters,             \* the arguments validate_and_filter was called with
    valid_transactions,  \* the list validate_and_filter returned
    invalid_count,       \* the count validate_and_filter returned
    filter_summary,      \* the summary validate_and_filter returned
    call,                \* the latest call of an analysis or enrichment function
    enriched_file,       \* the data lines of data/enriched_sales_data.txt
    pc

vars == <<raw_lines, transactions, filters, valid_transactions, invalid_count,
          filter_summary, call, enriched_file, pc>>

\* ------------------------------------------------------------------ str
Digits == {"0", "1", "2", "3", "4", "5", "6", "7", "8", "9"}

DigitVal(c) ==
    CASE c = "0" -> 0 [] c = "1" -> 1 [] c = "2" -> 2 [] c = "3" -> 3
      [] c = "4" -> 4 [] c = "5" -> 5 [] c = "6" -> 6 [] c = "7" -> 7
      [] c = "8" -> 8 [] c = "9" -> 9

\* str.lstrip()
RECURSIVE LStrip(_)
LStrip(s) == IF s # <<>> /\ Head(s) = " " THEN LStrip(Tail(s)) ELSE s

\* str.rstrip()
RECURSIVE RStrip(_)
RStrip(s) ==
    IF s # <<>> /\ s[Len(s)] = " " THEN RStrip(SubSeq(s, 1, Len(s) - 1)) ELSE s

\* str.strip()
Strip(s) == RStrip(LStrip(s))

\* str.split(sep): one more part than there are separators
RECURSIVE SplitFrom(_, _, _)
SplitFrom(s, sep, cur) ==
    IF s = <<>> THEN <<cur>>
    ELSE IF Head(s) = sep THEN <<cur>> \o SplitFrom(Tail(s), sep, <<>>)
    ELSE SplitFrom(Tail(s), sep, Append(cur, Head(s)))

Split(s, sep) == SplitFrom(s, sep, <<>>)

\* str.replace(old, new) for a one-character old
RECURSIVE Replace(_, _, _)
Replace(s, old, new) ==
    IF s = <<>> THEN <<>>
    ELSE (IF Head(s) = old THEN new ELSE <<Head(s)>>) \o Replace(Tail(s), old, new)

\* str.startswith(prefix) for a one-character prefix
StartsWith(s, c) == s # <<>> /\ Head(s) = c

\* a string of the decimal digits int() and float() read
IsDecimalStr(s) == s # <<>> /\ \A i \in 1..Len(s) : s[i] \in Digits

\* str.isdigit(): also true of the superscript digits
IsDigitStr(s) == s # <<>> /\ \A i \in 1..Len(s) : s[i] \in Digits \cup {"²"}

\* value of a string of decimal digits
RECURSIVE DigitsValue(_)
DigitsValue(s) ==
    IF s = <<>> THEN 0
    ELSE 10 * DigitsValue(SubSeq(s, 1, Len(s) - 1)) + DigitVal(s[Len(s)])

Unsigned(s) == IF s # <<>> /\ Head(s) \in {"+", "-"} THEN Tail(s) ELSE s

Sign(s) == IF s # <<>> /\ Head(s) = "-" THEN -1 ELSE 1

\* int(s) succeeds: surrounding blanks, an optional sign, one or more digits
IntOk(s) == IsDecimalStr(Unsigned(Strip(s)))

IntValue(s) == Sign(Strip(s)) * DigitsValue(Unsigned(Strip(s)))

\* ---------------------------------------------------------------- float
Fin(n) == [k |-> "fin", v |-> n]

NaN == [k |-> "nan", v |-> 0]

Inf == [k |-> "inf", v |-> 0]

NegInf == [k |-> "ninf", v |-> 0]

\* a < b
FLt(a, b) ==
    CASE a.k = "nan" \/ b.k = "nan" -> FALSE
      [] a.k = "inf" -> FALSE
      [] a.k = "ninf" -> b.k # "ninf"
      [] OTHER -> b.k = "inf" \/ (b.k = "fin" /\ a.v < b.v)

\* a == b
FEq(a, b) == a.k # "nan" /\ a = b

FLe(a, b) == FLt(a, b) \/ FEq(a, b)

FGt(a, b) == FLt(b, a)

\* a + b
FAdd(a, b) ==
    CASE a.k = "nan" \/ b.k = "nan" -> NaN
      [] a.k = "inf" -> (IF b.k = "ninf" THEN NaN ELSE Inf)
      [] a.k = "ninf" -> (IF b.k = "inf" THEN NaN ELSE NegInf)
      [] b.k # "fin" -> b
      [] OTHER -> Fin(a.v + b.v)

\* q * x for an int q
FMulInt(q, x) ==
    CASE x.k = "nan" -> NaN
      [] x.k = "fin" -> Fin(q * x.v)
      [] q = 0 -> NaN
      [] OTHER -> (IF (q > 0) = (x.k = "inf") THEN Inf ELSE NegInf)

\* the digits of float(s): at most one decimal point, at least one digit
DecimalOk(d) ==
    LET parts == Split(d, ".")
    IN  /\ Len(parts) \in {1, 2}
        /\ \A i \in 1..Len(parts) : parts[i] = <<>> \/ IsDecimalStr(parts[i])
        /\ \E i \in 1..Len(parts) : parts[i] # <<>>

NanText == <<"n", "a", "n">>

InfText == <<"i", "n", "f">>

\* float(s) succeeds: surrounding blanks, an optional sign, then a decimal
\* number, nan or inf (the inputs are lower case and carry no exponent)
FloatOk(s) ==
    LET d == Unsigned(Strip(s))
    IN  d = NanText \/ d = InfText \/ DecimalOk(d)

\* the value of float(s); the inputs carry at most two decimals
FloatValue(s) ==
    LET d     == Unsigned(Strip(s))
        parts == Split(d, ".")
        frac  == IF Len(parts) = 2 THEN parts[2] ELSE <<>>
        two   == SubSeq(frac \o <<"0", "0">>, 1, 2)
    IN  IF d = NanText THEN NaN
        ELSE IF d = InfText THEN (IF Sign(Strip(s)) < 0 THEN NegInf ELSE Inf)
        ELSE Fin(Sign(Strip(s)) * (100 * DigitsValue(parts[1]) + DigitsValue(two)))

\* ------------------------------------------------------- parse_transactions
expected_fields == 8

\* ParseLine keeping a line whose quantity or price does not convert, with
\* zeros for both
ParseLine_KeepsUnconvertible(line) ==
    IF line = <<>> \/ Strip(line) = <<>> THEN <<>>
    ELSE LET parts == Split(Strip(line), "|")
         IN  IF Len(parts) # expected_fields THEN <<>>
             ELSE LET product_name   == Strip(Replace(Strip(parts[4]), ",", <<" ">>))
                      quantity_raw   == Replace(Strip(parts[5]), ",", <<>>)
                      unit_price_raw == Replace(Strip(parts[6]), ",", <<>>)
                      ok             == IntOk(quantity_raw) /\ FloatOk(unit_price_raw)
                  IN  << [TransactionID |-> Strip(parts[1]),
                          Date          |-> Strip(parts[2]),
                          ProductID     |-> Strip(parts[3]),
                          ProductName   |-> product_name,
                          Quantity      |-> IF ok THEN IntValue(quantity_raw) ELSE 0,
                          UnitPrice     |-> IF ok THEN FloatValue(unit_price_raw) ELSE Fin(0),
                          CustomerID    |-> Strip(parts[7]),
                          Region        |-> Strip(parts[8])] >>

\* the body of the loop of parse_transactions for one line: the list of
\* records (none or one) the line appends
ParseLine(line) ==
    IF line = <<>> \/ Strip(line) = <<>> THEN <<>>
    ELSE LET parts == Split(Strip(line), "|")
         IN  IF Len(parts) # expected_fields THEN <<>>
             ELSE LET product_name   == Strip(Replace(Strip(parts[4]), ",", <<" ">>))
                      quantity_raw   == Replace(Strip(parts[5]), ",", <<>>)
                      unit_price_raw == Replace(Strip(parts[6]), ",", <<>>)
                  IN  IF ~(IntOk(quantity_raw) /\ FloatOk(unit_price_raw)) THEN <<>>
                      ELSE << [TransactionID |-> Strip(parts[1]),
                               Date          |-> Strip(parts[2]),
                               ProductID     |-> Strip(parts[3]),
                               ProductName   |-> product_name,
                               Quantity      |-> IntValue(quantity_raw),
                               UnitPrice     |-> FloatValue(unit_price_raw),
                               CustomerID    |-> Strip(parts[7]),
                               Region        |-> Strip(parts[8])] >>

RECURSIVE parse_transactions(_)
parse_transactions(lines) ==
    IF lines = <<>> THEN <<>>
    ELSE ParseLine(Head(lines)) \o parse_transactions(Tail(lines))

\* ------------------------------------------------------ validate_and_filter
\* an optional argument: <<>> is None, <<x>> is the value x
None == <<>>

Some(x) == <<x>>

required_fields ==
    <<"TransactionID", "Date", "ProductID", "ProductName",
      "Quantity", "UnitPrice", "CustomerID", "Region">>

\* str(tx[field]).strip() == "": the str of an int or a float is never blank
BlankField(tx, field) ==
    IF field \in {"Quantity", "UnitPrice"} THEN FALSE ELSE Strip(tx[field]) = <<>>

\* the loop over required_fields, lines 136-140 (parse_transactions stores a
\* str, an int or a float under every key, never None)
Missing(tx) ==
    \E i \in 1..Len(required_fields) :
        \/ required_fields[i] \notin DOMAIN tx
        \/ BlankField(tx, required_fields[i])

\* one pass of the validation loop, lines 134-169: TRUE when the record is
\* appended to valid_transactions, FALSE when invalid_count is incremented.
\* int() and float() of an int and a float cannot raise.
ValidRecord(tx) ==
    IF Missing(tx) THEN FALSE
    ELSE IF ~StartsWith(tx.TransactionID, "T") THEN FALSE
    ELSE IF ~StartsWith(tx.ProductID, "P") THEN FALSE
    ELSE IF ~StartsWith(tx.CustomerID, "C") THEN FALSE
    ELSE IF tx.Quantity <= 0 \/ FLe(tx.UnitPrice, Fin(0)) THEN FALSE
    ELSE TRUE

RECURSIVE ValidationLoop(_, _)
ValidationLoop(txs, acc) ==
    IF txs = <<>> THEN acc
    ELSE ValidationLoop(Tail(txs),
            IF ValidRecord(Head(txs))
            THEN [acc EXCEPT !.valid_transactions = Append(@, Head(txs))]
            ELSE [acc EXCEPT !.invalid_count = @ + 1])

\* t["Quantity"] * t["UnitPrice"]
Amount(t) == FMulInt(t.Quantity, t.UnitPrice)

\* amount_ok, lines 199-205
amount_ok(t, min_amount, max_amount) ==
    IF min_amount # None /\ FLt(Amount(t), min_amount[1]) THEN FALSE
    ELSE IF max_amount # None /\ FGt(Amount(t), max_amount[1]) THEN FALSE
    ELSE TRUE

\* `if region:` is false for None and for the empty string
Truthy(region) == region # None /\ region[1] # <<>>

\* validate_and_filter counting the records the amount filter removed from
\* the length of the list before the region filter
validate_and_filter_AmountCountFromValidated(txs, region, min_amount, max_amount) ==
    LET loop == ValidationLoop(txs, [valid_transactions |-> <<>>, invalid_count |-> 0])
        valid == loop.valid_transactions
        RegionKeep(t) == t.Region = region[1]
        by_region == IF Truthy(region) THEN SelectSeq(valid, RegionKeep) ELSE valid
        filtered_by_region == IF Truthy(region) THEN Len(valid) - Len(by_region) ELSE 0
        AmountKeep(t) == amount_ok(t, min_amount, max_amount)
        has_amount == min_amount # None \/ max_amount # None
        filtered == IF has_amount THEN SelectSeq(by_region, AmountKeep) ELSE by_region
        filtered_by_amount == IF has_amount THEN Len(valid) - Len(filtered) ELSE 0
    IN  [filtered |-> filtered,
         invalid_count |-> loop.invalid_count,
         filter_summary |->
            [total_input |-> Len(txs),
             invalid |-> loop.invalid_count,
             filtered_by_region |-> filtered_by_region,
             filtered_by_amount |-> filtered_by_amount,
             final_count |-> Len(filtered)]]

validate_and_filter(txs, region, min_amount, max_amount) ==
    LET loop == ValidationLoop(txs, [valid_transactions |-> <<>>, invalid_count |-> 0])
        valid == loop.valid_transactions
        RegionKeep(t) == t.Region = region[1]
        by_region == IF Truthy(region) THEN SelectSeq(valid, RegionKeep) ELSE valid
        filtered_by_region == IF Truthy(region) THEN Len(valid) - Len(by_region) ELSE 0
        AmountKeep(t) == amount_ok(t, min_amount, max_amount)
        has_amount == min_amount # None \/ max_amount # None
        filtered == IF has_amount THEN SelectSeq(by_region, AmountKeep) ELSE by_region
        filtered_by_amount == IF has_amount THEN Len(by_region) - Len(filtered) ELSE 0
    IN  [filtered |-> filtered,
         invalid_count |-> loop.invalid_count,
         filter_summary |->
            [total_input |-> Len(txs),
             invalid |-> loop.invalid_count,
             filtered_by_region |-> filtered_by_region,
             filtered_by_amount |-> filtered_by_amount,
             final_count |-> Len(filtered)]]

\* ---------------------------------------------------------- data_processor
\* A dict is the sequence of its items in insertion order; every item
\* carries its key in the field key.
HasKey(d, k) == \E i \in 1..Len(d) : d[i].key = k

IndexOf(d, k) == CHOOSE i \in 1..Len(d) : d[i].key = k

\* a < b for the sort keys (int, float): the first component that differs
\* decides, and nan differs from everything
KeyLess(a, b) ==
    IF a[1] # b[1] THEN a[1] < b[1]
    ELSE IF ~FEq(a[2], b[2]) THEN FLt(a[2], b[2])
    ELSE FALSE

Reverse(items) == [i \in 1..Len(items) |-> items[Len(items) + 1 - i]]

\* list.sort, count_run: the end of the run that starts the list, items[i]
\* being the next candidate; a descending run is strictly descending
RECURSIVE RunEnd(_, _, _)
RunEnd(items, i, descending) ==
    IF i > Len(items) THEN i - 1
    ELSE IF KeyLess(items[i].sortkey, items[i - 1].sortkey) = descending
         THEN RunEnd(items, i + 1, descending)
         ELSE i - 1

\* list.sort, binarysort: the place of pivot in the sorted prefix, counted
\* from 0; pivot goes behind the items it is not less than
RECURSIVE BinarySearch(_, _, _, _)
BinarySearch(prefix, pivot, l, r) ==
    IF l >= r THEN l
    ELSE LET p == l + ((r - l) \div 2)
         IN  IF KeyLess(pivot.sortkey, prefix[p + 1].sortkey)
             THEN BinarySearch(prefix, pivot, l, p)
             ELSE BinarySearch(prefix, pivot, p + 1, r)

RECURSIVE BinarySort(_, _)
BinarySort(prefix, rest) ==
    IF rest = <<>> THEN prefix
    ELSE LET l == BinarySearch(prefix, Head(rest), 0, Len(prefix))
         IN  BinarySort(SubSeq(prefix, 1, l) \o <<Head(rest)>>
                        \o SubSeq(prefix, l + 1, Len(prefix)), Tail(rest))

\* list.sort() of a list shorter than 64: the leading run, reversed when it
\* descends, then binary insertion of the rest
SortAsc(items) ==
    IF Len(items) < 2 THEN items
    ELSE LET descending == KeyLess(items[2].sortkey, items[1].sortkey)
             n   == RunEnd(items, 3, descending)
             run == SubSeq(items, 1, n)
         IN  BinarySort(IF descending THEN Reverse(run) ELSE run,
                        SubSeq(items, n + 1, Len(items)))

\* list.sort(reverse=True): reverse, sort, reverse
SortDesc(items) == Reverse(SortAsc(Reverse(items)))

\* round(num / den, 2) in hundredths, for den > 0: Python rounds a tie to
\* the even neighbour
RoundHalfEven(num, den) ==
    LET q == num \div den
        r == num - q * den
    IN  IF 2 * r < den THEN q
        ELSE IF 2 * r > den THEN q + 1
        ELSE IF q % 2 = 0 THEN q ELSE q + 1

\* calculate_total_revenue adding the price without the quantity
RECURSIVE calculate_total_revenue_PriceOnly(_)
calculate_total_revenue_PriceOnly(txs) ==
    IF txs = <<>> THEN Fin(0)
    ELSE FAdd(calculate_total_revenue_PriceOnly(SubSeq(txs, 1, Len(txs) - 1)),
              txs[Len(txs)].UnitPrice)

\* calculate_total_revenue, lines 10-21 (int() and float() of an int and a
\* float do not raise, and every record carries both keys)
RECURSIVE calculate_total_revenue(_)
calculate_total_revenue(txs) ==
    IF txs = <<>> THEN Fin(0)
    ELSE FAdd(calculate_total_revenue(SubSeq(txs, 1, Len(txs) - 1)),
              FMulInt(txs[Len(txs)].Quantity, txs[Len(txs)].UnitPrice))

\* region_wise_sales, step 1, lines 46-68
RECURSIVE RegionTotals(_, _)
RegionTotals(txs, acc) ==
    IF txs = <<>> THEN acc
    ELSE LET tx     == Head(txs)
             region == Strip(tx.Region)
             amount == FMulInt(tx.Quantity, tx.UnitPrice)
             stats  == IF HasKey(acc.region_stats, region) THEN acc.region_stats
                       ELSE Append(acc.region_stats,
                                   [key |-> region, total_sales |-> Fin(0),
                                    transaction_count |-> 0])
             i      == IndexOf(stats, region)
         IN  IF region = <<>> THEN RegionTotals(Tail(txs), acc)
             ELSE RegionTotals(Tail(txs),
                    [grand_total  |-> FAdd(acc.grand_total, amount),
                     region_stats |->
                        [stats EXCEPT ![i].total_sales = FAdd(@, amount),
                                      ![i].transaction_count = @ + 1]])

\* region_wise_sales, step 2, lines 71-76: round(total / grand * 100, 2);
\* inf / inf is nan, a finite total over inf is 0
Percentage(total_sales, grand_total) ==
    IF ~FGt(grand_total, Fin(0)) THEN Fin(0)
    ELSE IF total_sales.k = "nan" THEN NaN
    ELSE IF grand_total.k = "inf"
         THEN (IF total_sales.k = "fin" THEN Fin(0) ELSE NaN)
    ELSE IF total_sales.k # "fin" THEN total_sales
    ELSE Fin(RoundHalfEven(total_sales.v * 10000, grand_total.v))

\* region_wise_sales, lines 46-87: the items of the returned dict in order
region_wise_sales(txs) ==
    LET acc == RegionTotals(txs, [grand_total |-> Fin(0), region_stats |-> <<>>])
        withpct == [i \in 1..Len(acc.region_stats) |->
                      [key |-> acc.region_stats[i].key,
                       total_sales |-> acc.region_stats[i].total_sales,
                       transaction_count |-> acc.region_stats[i].transaction_count,
                       percentage |-> Percentage(acc.region_stats[i].total_sales,
                                                 acc.grand_total),
                       sortkey |-> <<0, acc.region_stats[i].total_sales>>]]
        sorted == SortDesc(withpct)
    IN  [i \in 1..Len(sorted) |->
            [key |-> sorted[i].key,
             total_sales |-> sorted[i].total_sales,
             transaction_count |-> sorted[i].transaction_count,
             percentage |-> sorted[i].percentage]]

\* the product_summary loop, lines 109-128 and again 332-352
RECURSIVE ProductSummary(_, _)
ProductSummary(txs, acc) ==
    IF txs = <<>> THEN acc
    ELSE LET tx      == Head(txs)
             name    == Strip(tx.ProductName)
             revenue == FMulInt(tx.Quantity, tx.UnitPrice)
             summary == IF HasKey(acc, name) THEN acc
                        ELSE Append(acc, [key |-> name, total_qty |-> 0,
                                          total_revenue |-> Fin(0)])
             i       == IndexOf(summary, name)
         IN  IF name = <<>> THEN ProductSummary(Tail(txs), acc)
             ELSE ProductSummary(Tail(txs),
                    [summary EXCEPT ![i].total_qty = @ + tx.Quantity,
                                    ![i].total_revenue = FAdd(@, revenue)])

\* the tuples (name, total_qty, total_revenue) with their sort key
ProductTuples(summary) ==
    [i \in 1..Len(summary) |->
        [name |-> summary[i].key, qty |-> summary[i].total_qty,
         revenue |-> summary[i].total_revenue,
         sortkey |-> <<summary[i].total_qty, summary[i].total_revenue>>]]

StripSortKey(items) ==
    [i \in 1..Len(items) |->
        [name |-> items[i].name, qty |-> items[i].qty, revenue |-> items[i].revenue]]

\* result[:n]
Slice(result, n) ==
    IF n >= 0 THEN SubSeq(result, 1, IF n < Len(result) THEN n ELSE Len(result))
    ELSE SubSeq(result, 1, Len(result) + n)

\* top_selling_products, lines 109-138
top_selling_products(txs, n) ==
    Slice(StripSortKey(SortDesc(ProductTuples(ProductSummary(txs, <<>>)))), n)

\* low_performing_products, lines 332-363
low_performing_products(txs, threshold) ==
    LET Low(p) == p.qty < threshold
    IN  StripSortKey(SortAsc(SelectSeq(ProductTuples(ProductSummary(txs, <<>>)), Low)))

\* find_peak_sales_day, the daily_totals loop, lines 286-305
RECURSIVE DailyTotals(_, _)
DailyTotals(txs, acc) ==
    IF txs = <<>> THEN acc
    ELSE LET tx      == Head(txs)
             date    == Strip(tx.Date)
             revenue == FMulInt(tx.Quantity, tx.UnitPrice)
             totals  == IF HasKey(acc, date) THEN acc
                        ELSE Append(acc, [key |-> date, revenue |-> Fin(0), count |-> 0])
             i       == IndexOf(totals, date)
         IN  IF date = <<>> THEN DailyTotals(Tail(txs), acc)
             ELSE DailyTotals(Tail(txs),
                    [totals EXCEPT ![i].revenue = FAdd(@, revenue), ![i].count = @ + 1])

\* max(items, key=revenue): an item replaces the best so far when its
\* revenue is greater
RECURSIVE MaxByRevenue(_, _)
MaxByRevenue(items, best) ==
    IF items = <<>> THEN best
    ELSE MaxByRevenue(Tail(items),
            IF FGt(Head(items).revenue, best.revenue) THEN Head(items) ELSE best)

\* find_peak_sales_day, lines 286-312
find_peak_sales_day(txs) ==
    LET daily_totals == DailyTotals(txs, <<>>)
        peak == MaxByRevenue(Tail(daily_totals), Head(daily_totals))
    IN  IF daily_totals = <<>> THEN [date |-> None, revenue |-> Fin(0), count |-> 0]
        ELSE [date |-> Some(peak.key), revenue |-> peak.revenue, count |-> peak.count]

\* the characters of the inputs in code point order
Alphabet ==
    <<" ", ",", "-", ".", "0", "1", "2", "3", "4", "5", "6", "7", "8", "9",
      "A", "B", "C", "D", "E", "F", "G", "H", "I", "J", "K", "L", "M",
      "N", "O", "P", "Q", "R", "S", "T", "U", "V", "W", "X", "Y", "Z",
      "a", "b", "c", "d", "e", "f", "g", "h", "i", "j", "k", "l", "m",
      "n", "o", "p", "q", "r", "s", "t", "u", "v", "w", "x", "y", "z",
      "|", "²">>

Ord(c) == CHOOSE i \in 1..Len(Alphabet) : Alphabet[i] = c

\* a < b for two str: the first character that differs decides, and a
\* proper prefix is less
RECURSIVE StrLess(_, _)
StrLess(a, b) ==
    IF b = <<>> THEN FALSE
    ELSE IF a = <<>> THEN TRUE
    ELSE IF Head(a) # Head(b) THEN Ord(Head(a)) < Ord(Head(b))
    ELSE StrLess(Tail(a), Tail(b))

\* sorted() of items with distinct str keys: the one ascending arrangement
RECURSIVE InsertByKey(_, _)
InsertByKey(sorted, item) ==
    IF sorted = <<>> THEN <<item>>
    ELSE IF StrLess(item.key, Head(sorted).key) THEN <<item>> \o sorted
    ELSE <<Head(sorted)>> \o InsertByKey(Tail(sorted), item)

RECURSIVE SortByKey(_)
SortByKey(items) ==
    IF items = <<>> THEN <<>>
    ELSE InsertByKey(SortByKey(SubSeq(items, 1, Len(items) - 1)), items[Len(items)])

\* sorted(list(names)) of a set of str
RECURSIVE SortedNames(_)
SortedNames(names) ==
    IF names = {} THEN <<>>
    ELSE LET least == CHOOSE n \in names : \A m \in names \ {n} : StrLess(n, m)
         IN  <<least>> \o SortedNames(names \ {least})

\* customer_analysis, step 1, lines 168-193
RECURSIVE CustomerStats(_, _)
CustomerStats(txs, acc) ==
    IF txs = <<>> THEN acc
    ELSE LET tx           == Head(txs)
             customer_id  == Strip(tx.CustomerID)
             product_name == Strip(tx.ProductName)
             amount       == FMulInt(tx.Quantity, tx.UnitPrice)
             stats == IF HasKey(acc, customer_id) THEN acc
                      ELSE Append(acc, [key |-> customer_id, total_spent |-> Fin(0),
                                        purchase_count |-> 0,
                                        products_bought |-> {}])
             i     == IndexOf(stats, customer_id)
         IN  IF customer_id = <<>> THEN CustomerStats(Tail(txs), acc)
             ELSE CustomerStats(Tail(txs),
                    [stats EXCEPT
                       ![i].total_spent = FAdd(@, amount),
                       ![i].purchase_count = @ + 1,
                       ![i].products_bought =
                           IF product_name # <<>> THEN @ \cup {product_name} ELSE @])

\* round(total / count, 2), line 200, for count > 0: nan and inf stay
AvgOrderValue(total, count) ==
    IF total.k # "fin" THEN total ELSE Fin(RoundHalfEven(total.v, count))

\* customer_analysis, lines 165-212: the items of the returned dict in order
customer_analysis(txs) ==
    LET customer_stats == CustomerStats(txs, <<>>)
        finished == [i \in 1..Len(customer_stats) |->
                       [key |-> customer_stats[i].key,
                        total_spent |-> customer_stats[i].total_spent,
                        purchase_count |-> customer_stats[i].purchase_count,
                        avg_order_value |->
                           IF customer_stats[i].purchase_count > 0
                           THEN AvgOrderValue(customer_stats[i].total_spent,
                                              customer_stats[i].purchase_count)
                           ELSE Fin(0),
                        products_bought |-> SortedNames(customer_stats[i].products_bought),
                        sortkey |-> <<0, customer_stats[i].total_spent>>]]
        sorted == SortDesc(finished)
    IN  [i \in 1..Len(sorted) |->
            [key |-> sorted[i].key,
             total_spent |-> sorted[i].total_spent,
             purchase_count |-> sorted[i].purchase_count,
             avg_order_value |-> sorted[i].avg_order_value,
             products_bought |-> sorted[i].products_bought]]

\* daily_sales_trend, step 1, lines 241-266
RECURSIVE DailyStats(_, _)
DailyStats(txs, acc) ==
    IF txs = <<>> THEN acc
    ELSE LET tx          == Head(txs)
             date        == Strip(tx.Date)
             customer_id == Strip(tx.CustomerID)
             revenue     == FMulInt(tx.Quantity, tx.UnitPrice)
             stats == IF HasKey(acc, date) THEN acc
                      ELSE Append(acc, [key |-> date, revenue |-> Fin(0),
                                        transaction_count |-> 0,
                                        unique_customers |-> {}])
             i     == IndexOf(stats, date)
         IN  IF date = <<>> THEN DailyStats(Tail(txs), acc)
             ELSE DailyStats(Tail(txs),
                    [stats EXCEPT
                       ![i].revenue = FAdd(@, revenue),
                       ![i].transaction_count = @ + 1,
                       ![i].unique_customers =
                           IF customer_id # <<>> THEN @ \cup {customer_id} ELSE @])

\* daily_sales_trend, step 2, lines 269-270
CountCustomers(daily_stats) ==
    [i \in 1..Len(daily_stats) |->
        [daily_stats[i] EXCEPT !.unique_customers = Cardinality(@)]]

\* daily_sales_trend returning the dict in insertion order
daily_sales_trend_InsertionOrder(txs) == CountCustomers(DailyStats(txs, <<>>))

\* daily_sales_trend, lines 238-275: the items of the returned dict in order
daily_sales_trend(txs) == SortByKey(CountCustomers(DailyStats(txs, <<>>)))

\* ------------------------------------------------------------- api_handler
\* str(n) of an int
RECURSIVE NatStr(_)
NatStr(n) ==
    IF n < 10 THEN <<CHOOSE c \in Digits : DigitVal(c) = n>>
    ELSE NatStr(n \div 10) \o <<CHOOSE c \in Digits : DigitVal(c) = n % 10>>

IntStr(n) == IF n < 0 THEN <<"-">> \o NatStr(-n) ELSE NatStr(n)

\* str(int(x)) in place of str(x): the fraction is not written
FloatStr_WholeUnits(x) ==
    CASE x.k = "nan" -> NanText
      [] x.k = "inf" -> InfText
      [] x.k = "ninf" -> <<"-">> \o InfText
      [] OTHER -> IF x.v < 0 THEN <<"-">> \o NatStr((-x.v) \div 100)
                  ELSE NatStr(x.v \div 100)

\* str(x) of a float: 45.0, 0.5, 1.25, nan, inf
FloatStr(x) ==
    LET a    == IF x.v < 0 THEN -x.v ELSE x.v
        frac == a % 100
    IN  CASE x.k = "nan" -> NanText
          [] x.k = "inf" -> InfText
          [] x.k = "ninf" -> <<"-">> \o InfText
          [] OTHER ->
               (IF x.v < 0 THEN <<"-">> ELSE <<>>) \o NatStr(a \div 100) \o <<".">>
               \o (IF frac % 10 = 0 THEN NatStr(frac \div 10)
                   ELSE NatStr(frac \div 10) \o NatStr(frac % 10))

ApiDefaults ==
    [API_Category |-> None, API_Brand |-> None, API_Rating |-> None,
     API_Match |-> FALSE]

\* EnrichOne setting API_Match as soon as a numeric id was extracted
EnrichOne_MatchOnNumericId(tx, product_mapping) ==
    LET product_id_str == Strip(tx.ProductID)
        numeric_part   == Tail(product_id_str)
        isdigit        == StartsWith(product_id_str, "P") /\ IsDigitStr(numeric_part)
        raises         == isdigit /\ ~IntOk(numeric_part)
        hit            == /\ isdigit
                          /\ ~raises
                          /\ IntValue(numeric_part) \in DOMAIN product_mapping
        api_info       == product_mapping[IntValue(numeric_part)]
    IN  IF raises THEN tx @@ ApiDefaults
        ELSE IF hit
             THEN tx @@ [API_Category |-> api_info.category,
                         API_Brand    |-> api_info.brand,
                         API_Rating   |-> api_info.rating,
                         API_Match    |-> TRUE]
             ELSE tx @@ [ApiDefaults EXCEPT !.API_Match = isdigit]

\* the body of the loop of enrich_sales_data, lines 101-136.  str.isdigit
\* accepts the superscript digits that int() rejects with ValueError; that
\* exception is caught at line 129.
EnrichOne(tx, product_mapping) ==
    LET product_id_str == Strip(tx.ProductID)
        numeric_part   == Tail(product_id_str)
        isdigit        == StartsWith(product_id_str, "P") /\ IsDigitStr(numeric_part)
        raises         == isdigit /\ ~IntOk(numeric_part)
        hit            == /\ isdigit
                          /\ ~raises
                          /\ IntValue(numeric_part) \in DOMAIN product_mapping
        api_info       == product_mapping[IntValue(numeric_part)]
    IN  IF raises THEN tx @@ ApiDefaults
        ELSE IF hit
             THEN tx @@ [API_Category |-> api_info.category,
                         API_Brand    |-> api_info.brand,
                         API_Rating   |-> api_info.rating,
                         API_Match    |-> TRUE]
             ELSE tx @@ ApiDefaults

headers ==
    <<"TransactionID", "Date", "ProductID", "ProductName",
      "Quantity", "UnitPrice", "CustomerID", "Region",
      "API_Category", "API_Brand", "API_Rating", "API_Match">>

\* the text save_enriched_data writes for tx.get(h), lines 169-175
CellStr(tx, h) ==
    IF h \notin DOMAIN tx THEN <<>>
    ELSE IF h = "Quantity" THEN IntStr(tx[h])
    ELSE IF h = "UnitPrice" THEN FloatStr(tx[h])
    ELSE IF h = "API_Match"
         THEN (IF tx[h] THEN <<"T", "r", "u", "e">> ELSE <<"F", "a", "l", "s", "e">>)
    ELSE IF h = "API_Rating"
         THEN (IF tx[h] = None THEN <<>> ELSE FloatStr(tx[h][1]))
    ELSE IF h \in {"API_Category", "API_Brand"}
         THEN (IF tx[h] = None THEN <<>> ELSE tx[h][1])
    ELSE tx[h]

RECURSIVE JoinCells(_, _)
JoinCells(tx, hs) ==
    IF Len(hs) = 1 THEN CellStr(tx, hs[1])
    ELSE CellStr(tx, hs[1]) \o <<"|">> \o JoinCells(tx, Tail(hs))

\* open(filename, "a"): the file keeps its data lines
OpenForWriting_Append(file) == IF file = None THEN <<>> ELSE file[1]

\* open(filename, "w"), line 161: the data lines the file holds before the
\* rows are written
OpenForWriting(file) == <<>>

\* save_enriched_data, lines 161-177: the data lines of the file (the
\* header line is the constant join of headers)
save_enriched_data(enriched_transactions) ==
    [i \in 1..Len(enriched_transactions) |-> JoinCells(enriched_transactions[i], headers)]

\* enrich_sales_data without the try/except of lines 101-136: the first
\* record whose enrichment raises ends the loop
RECURSIVE enrich_sales_data_AbortsOnFault(_, _)
enrich_sales_data_AbortsOnFault(txs, product_mapping) ==
    IF txs = <<>> THEN <<>>
    ELSE LET product_id_str == Strip(Head(txs).ProductID)
             raises == /\ StartsWith(product_id_str, "P")
                       /\ IsDigitStr(Tail(product_id_str))
                       /\ ~IntOk(Tail(product_id_str))
         IN  IF raises THEN <<>>
             ELSE <<EnrichOne(Head(txs), product_mapping)>>
                  \o enrich_sales_data_AbortsOnFault(Tail(txs), product_mapping)

\* enrich_sales_data, lines 98-141: the returned list
enrich_sales_data(txs, product_mapping) ==
    [i \in 1..Len(txs) |-> EnrichOne(txs[i], product_mapping)]

\* ------------------------------------------------------------------ inputs
MaxLines == 3

MaxN == 2

\* the default n of top_selling_products and threshold of
\* low_performing_products
DefaultN == 5

DefaultThreshold == 10

\* str.join
RECURSIVE Join(_, _)
Join(fs, sep) ==
    IF fs = <<>> THEN <<>>
    ELSE IF Len(fs) = 1 THEN fs[1]
    ELSE fs[1] \o <<sep>> \o Join(Tail(fs), sep)

North == <<"N", "o", "r", "t", "h">>
South == <<"S", "o", "u", "t", "h">>
East  == <<"E", "a", "s", "t">>
Lap   == <<"L", "a", "p">>
Mouse == <<"M", "o", "u", "s", "e">>
Pad   == <<"P", "a", "d">>
Day1  == <<"1", "2", "-", "0", "1">>
Day2  == <<"1", "2", "-", "0", "2">>
P101  == <<"P", "1", "0", "1">>
P102  == <<"P", "1", "0", "2">>
Price45 == <<"4", "5">>

\* well-formed lines of valid records
LineA == Join(<< <<"T","1">>, Day1, P101, Lap, <<"2">>, Price45, <<"C","1">>, North >>, "|")
LineB == Join(<< <<"T","2">>, Day2, P102, Mouse, <<"1">>, <<"8","0">>,
                 <<"C","2">>, South >>, "|")
LineC == Join(<< <<"T","3">>, Day2, <<"P","1","x">>, Mouse, <<"2">>, Price45,
                 <<"C","1">>, South >>, "|")
LineD == Join(<< <<"T","4">>, Day1, <<"P","0","7">>, Pad, <<"2">>, <<"2","5">>,
                 <<"C","2">>, East >>, "|")
\* padded fields, a comma in the name and in both numbers, a superscript id
LineE == Join(<< <<" ","T","5"," ">>, Day2, <<"P","²">>, <<"M","o","u","s","e",",","P","a","d">>,
                 <<" ","1",",","0"," ">>, <<"1",",","0",".","5">>,
                 <<"C","2">>, <<" ","E","a","s","t"," ">> >>, "|")
\* seven fields
LineF == Join(<< <<"T","6">>, Day1, P101, Lap, <<"2">>, Price45, <<"C","1">> >>, "|")
\* a quantity int() rejects
LineG == Join(<< <<"T","7">>, Day1, P101, Lap, <<"2",".","0">>, Price45, <<"C","1">>, North >>, "|")
\* Quantity = 0
LineH == Join(<< <<"T","8">>, Day1, P101, Lap, <<"0">>, Price45, <<"C","1">>, North >>, "|")
\* a blank Region
LineI == Join(<< <<"T","9">>, Day1, P101, Lap, <<"2">>, Price45, <<"C","1">>, <<" ">> >>, "|")
\* a TransactionID that does not start with T
LineJ == Join(<< <<"X","1">>, Day1, P101, Lap, <<"2">>, Price45, <<"C","1">>, North >>, "|")
\* three rules broken at once
LineK == Join(<< <<"T","1","1">>, Day1, <<"Q","1">>, Lap, <<"1">>, <<"-","5">>, <<"c","1">>, North >>, "|")

\* prices float() reads as nan and as inf
LineN == Join(<< <<"T","1","2">>, Day1, P101, Lap, <<"1">>, NanText, <<"C","1">>, North >>, "|")
LineO == Join(<< <<"T","1","3">>, Day2, P102, Mouse, <<"1">>, InfText, <<"C","2">>, South >>, "|")

LinePool ==
    {LineA, LineB, LineC, LineD, LineE, LineF, LineG, LineH, LineI, LineJ, LineK,
     LineN, LineO}

BoundedSeqs(S, n) == UNION { [1..k -> S] : k \in 0..n }

\* filter arguments: amounts in hundredths
Regions == {None, Some(North)}

MinAmounts == {None, Some(Fin(5000))}

MaxAmounts == {None, Some(Fin(8000))}

Thresholds == {2, DefaultThreshold}

Laptops == <<"l", "a", "p", "t", "o", "p", "s">>
Apple   == <<"A", "p", "p", "l", "e">>

\* product mappings as create_product_mapping builds them; the empty one is
\* what main uses after a catalog failure
MappingPool ==
    { <<>>,
      (101 :> [title |-> Some(Lap), category |-> Some(Laptops),
               brand |-> Some(Apple), rating |-> Some(Fin(470))]),
      (101 :> [title |-> Some(Lap), category |-> Some(Laptops),
               brand |-> Some(Apple), rating |-> Some(Fin(470))])
      @@ (7 :> [title |-> Some(Pad), category |-> None,
                brand |-> None, rating |-> Some(Fin(400))]) }

NoCall == [op |-> "none"]

\* ------------------------------------------------------------------ machine
Init ==
    /\ raw_lines \in BoundedSeqs(LinePool, MaxLines)
    /\ transactions = <<>>
    /\ filters = <<>>
    /\ valid_transactions = <<>>
    /\ invalid_count = 0
    /\ filter_summary = <<>>
    /\ call = NoCall
    /\ enriched_file = None
    /\ pc = "start"

\* transactions = parse_transactions(raw_lines)
Parse ==
    /\ pc = "start"
    /\ transactions' = parse_transactions(raw_lines)
    /\ pc' = "parsed"
    /\ UNCHANGED <<raw_lines, filters, valid_transactions, invalid_count,
                   filter_summary, call, enriched_file>>

\* valid_transactions, invalid_count, summary = validate_and_filter(...)
Validate ==
    /\ pc = "parsed"
    /\ \E region \in Regions, min_amount \in MinAmounts, max_amount \in MaxAmounts :
         LET r == validate_and_filter(transactions, region, min_amount, max_amount)
         IN  /\ filters' = [region |-> region, min_amount |-> min_amount,
                            max_amount |-> max_amount]
             /\ valid_transactions' = r.filtered
             /\ invalid_count' = r.invalid_count
             /\ filter_summary' = r.filter_summary
    /\ pc' = "validated"
    /\ UNCHANGED <<raw_lines, transactions, call, enriched_file>>

\* an analysis or enrichment call is given valid_transactions, as in main,
\* and assigns nothing but its own result
Frame ==
    /\ pc' = "called"
    /\ UNCHANGED <<raw_lines, transactions, filters, valid_transactions,
                   invalid_count, filter_summary>>

CallTotalRevenue ==
    /\ pc = "validated"
    /\ call' = [op |-> "calculate_total_revenue", txs |-> valid_transactions,
                result |-> calculate_total_revenue(valid_transactions)]
    /\ UNCHANGED enriched_file
    /\ Frame

CallRegionWiseSales ==
    /\ pc = "validated"
    /\ call' = [op |-> "region_wise_sales", txs |-> valid_transactions,
                result |-> region_wise_sales(valid_transactions)]
    /\ UNCHANGED enriched_file
    /\ Frame

CallTopSellingProducts ==
    /\ pc = "validated"
    /\ \E n \in (0..MaxN) \cup {DefaultN} :
         call' = [op |-> "top_selling_products", txs |-> valid_transactions, n |-> n,
                  result |-> top_selling_products(valid_transactions, n)]
    /\ UNCHANGED enriched_file
    /\ Frame

CallLowPerformingProducts ==
    /\ pc = "validated"
    /\ \E threshold \in Thresholds :
         call' = [op |-> "low_performing_products", txs |-> valid_transactions,
                  threshold |-> threshold,
                  result |-> low_performing_products(valid_transactions, threshold)]
    /\ UNCHANGED enriched_file
    /\ Frame

CallFindPeakSalesDay ==
    /\ pc = "validated"
    /\ call' = [op |-> "find_peak_sales_day", txs |-> valid_transactions,
                result |-> find_peak_sales_day(valid_transactions)]
    /\ UNCHANGED enriched_file
    /\ Frame

\* customer_analysis taking the records off the list it is given
CallCustomerAnalysis_ConsumesInput ==
    /\ pc = "validated"
    /\ call' = [op |-> "customer_analysis", txs |-> valid_transactions,
                result |-> customer_analysis(valid_transactions)]
    /\ valid_transactions' = <<>>
    /\ pc' = "called"
    /\ UNCHANGED <<raw_lines, transactions, filters, invalid_count, filter_summary,
                   enriched_file>>

CallCustomerAnalysis ==
    /\ pc = "validated"
    /\ call' = [op |-> "customer_analysis", txs |-> valid_transactions,
                result |-> customer_analysis(valid_transactions)]
    /\ UNCHANGED enriched_file
    /\ Frame

CallDailySalesTrend ==
    /\ pc = "validated"
    /\ call' = [op |-> "daily_sales_trend", txs |-> valid_transactions,
                result |-> daily_sales_trend(valid_transactions)]
    /\ UNCHANGED enriched_file
    /\ Frame

\* enrich_sales_data returns the enriched list and writes the enriched file
CallEnrichSalesData ==
    /\ pc = "validated"
    /\ \E product_mapping \in MappingPool :
         LET enriched == enrich_sales_data(valid_transactions, product_mapping)
         IN  /\ call' = [op |-> "enrich_sales_data", txs |-> valid_transactions,
                         product_mapping |-> product_mapping, result |-> enriched,
                         run |-> 1]
             /\ enriched_file' = Some(OpenForWriting(enriched_file)
                                      \o save_enriched_data(enriched))
    /\ Frame

\* enrich_sales_data is run once more on the same list and mapping; the
\* call keeps the list and the file of the first run next to the new ones
CallEnrichSalesDataAgain ==
    /\ pc = "called"
    /\ call.op = "enrich_sales_data"
    /\ call.run = 1
    /\ LET enriched == enrich_sales_data(valid_transactions, call.product_mapping)
       IN  /\ call' = [op |-> "enrich_sales_data", txs |-> valid_transactions,
                       product_mapping |-> call.product_mapping, result |-> enriched,
                       run |-> 2, first_result |-> call.result,
                       first_file |-> enriched_file]
           /\ enriched_file' = Some(OpenForWriting(enriched_file)
                                    \o save_enriched_data(enriched))
    /\ Frame

Next ==
    \/ Parse
    \/ Validate
    \/ CallTotalRevenue
    \/ CallRegionWiseSales
    \/ CallTopSellingProducts
    \/ CallLowPerformingProducts
    \/ CallFindPeakSalesDay
    \/ CallCustomerAnalysis
    \/ CallDailySalesTrend
    \/ CallEnrichSalesData
    \/ CallEnrichSalesDataAgain

Spec == Init /\ [][Next]_vars



\* ------------------------------------------------- calls one after another
\* the lines of the runs in which the calls follow one another: three valid
\* records, a rejected one and a price float() reads as nan
SeqPool == {LineA, LineB, LineD, LineH, LineN}

SeqInit ==
    /\ raw_lines \in BoundedSeqs(SeqPool, MaxLines)
    /\ transactions = <<>>
    /\ filters = <<>>
    /\ valid_transactions = <<>>
    /\ invalid_count = 0
    /\ filter_summary = <<>>
    /\ call = NoCall
    /\ enriched_file = None
    /\ pc = "start"

Aggregations ==
    {"calculate_total_revenue", "region_wise_sales", "top_selling_products",
     "customer_analysis", "daily_sales_trend", "find_peak_sales_day",
     "low_performing_products"}

\* the call of an aggregation function has returned: the caller goes on
\* with the lists as the call left them
Return ==
    /\ pc = "called"
    /\ call.op \in Aggregations
    /\ pc' = "validated"
    /\ UNCHANGED <<raw_lines, transactions, filters, valid_transactions,
                   invalid_count, filter_summary, call, enriched_file>>

\* validate_and_filter is called once more on the parsed list, with any
\* filters; the result of an earlier aggregation call is dropped
ValidateAgain ==
    /\ pc = "validated"
    /\ \E region \in Regions, min_amount \in MinAmounts, max_amount \in MaxAmounts :
         LET r == validate_and_filter(transactions, region, min_amount, max_amount)
         IN  /\ filters' = [region |-> region, min_amount |-> min_amount,
                            max_amount |-> max_amount]
             /\ valid_transactions' = r.filtered
             /\ invalid_count' = r.invalid_count
             /\ filter_summary' = r.filter_summary
    /\ call' = NoCall
    /\ UNCHANGED <<raw_lines, transactions, enriched_file, pc>>

SeqNext ==
    \/ Parse
    \/ Validate
    \/ ValidateAgain
    \/ CallTotalRevenue
    \/ CallRegionWiseSales
    \/ CallTopSellingProducts
    \/ CallLowPerformingProducts
    \/ CallFindPeakSalesDay
    \/ CallCustomerAnalysis
    \/ CallDailySalesTrend
    \/ Return

SeqSpec == SeqInit /\ [][SeqNext]_vars

\* ------------------------------------------------------------- run of main
\* the lines of the runs of main: well-formed, dropped by the parser,
\* rejected by the validator, and a price float() reads as nan
MainPool == {LineA, LineB, LineF, LineH, LineN}

MainInit ==
    /\ raw_lines \in BoundedSeqs(MainPool, MaxLines)
    /\ transactions = <<>>
    /\ filters = <<>>
    /\ valid_transactions = <<>>
    /\ invalid_count = 0
    /\ filter_summary = <<>>
    /\ call = NoCall
    /\ enriched_file = None
    /\ pc = "start"

\* a step of main that calls no function of the pipeline on the lists
MainFrame ==
    UNCHANGED <<raw_lines, transactions, filters, valid_transactions,
                invalid_count, filter_summary>>

\* lines 17-19: read_sales_data returned no line
MainExitNoLines ==
    /\ pc = "start"
    /\ raw_lines = <<>>
    /\ pc' = "no_lines"
    /\ UNCHANGED <<call, enriched_file>>
    /\ MainFrame

\* line 24
MainParse == raw_lines # <<>> /\ Parse

\* lines 27-29: nothing was parsed
MainExitNoTransactions ==
    /\ pc = "parsed"
    /\ transactions = <<>>
    /\ pc' = "no_transactions"
    /\ UNCHANGED <<call, enriched_file>>
    /\ MainFrame

\* lines 45-83: the filter answers are read and validate_and_filter is called
MainValidate == transactions # <<>> /\ Validate

\* lines 86-88: nothing is left after validation and filtering
MainExitNoValid ==
    /\ pc = "validated"
    /\ valid_transactions = <<>>
    /\ pc' = "no_valid"
    /\ UNCHANGED <<call, enriched_file>>
    /\ MainFrame

\* lines 93-99 without the empty check of lines 86-88
MainAnalyse_NoEmptyCheck ==
    /\ pc = "validated"
    /\ call' = [op |-> "analysis", txs |-> valid_transactions,
                total_rev    |-> calculate_total_revenue(valid_transactions),
                region_stats |-> region_wise_sales(valid_transactions),
                top_products |-> top_selling_products(valid_transactions, DefaultN),
                customers    |-> customer_analysis(valid_transactions),
                daily_trend  |-> daily_sales_trend(valid_transactions),
                peak_day     |-> find_peak_sales_day(valid_transactions),
                low_products |-> low_performing_products(valid_transactions,
                                                         DefaultThreshold)]
    /\ pc' = "analysed"
    /\ UNCHANGED enriched_file
    /\ MainFrame

\* lines 93-99: the analysis calls of main, reached past lines 86-88
MainAnalyse ==
    /\ pc = "validated"
    /\ valid_transactions # <<>>
    /\ call' = [op |-> "analysis", txs |-> valid_transactions,
                total_rev    |-> calculate_total_revenue(valid_transactions),
                region_stats |-> region_wise_sales(valid_transactions),
                top_products |-> top_selling_products(valid_transactions, DefaultN),
                customers    |-> customer_analysis(valid_transactions),
                daily_trend  |-> daily_sales_trend(valid_transactions),
                peak_day     |-> find_peak_sales_day(valid_transactions),
                low_products |-> low_performing_products(valid_transactions,
                                                         DefaultThreshold)]
    /\ pc' = "analysed"
    /\ UNCHANGED enriched_file
    /\ MainFrame

\* lines 105-111: the catalog is fetched; a failed fetch gives the empty
\* mapping
MainFetch ==
    /\ pc = "analysed"
    /\ \E product_mapping \in MappingPool :
         call' = [op |-> "create_product_mapping", product_mapping |-> product_mapping]
    /\ pc' = "fetched"
    /\ UNCHANGED enriched_file
    /\ MainFrame

\* line 115
MainEnrich ==
    /\ pc = "fetched"
    /\ LET enriched == enrich_sales_data(valid_transactions, call.product_mapping)
       IN  /\ call' = [op |-> "enrich_sales_data", txs |-> valid_transactions,
                       product_mapping |-> call.product_mapping, result |-> enriched,
                       run |-> 1]
           /\ enriched_file' = Some(OpenForWriting(enriched_file)
                                    \o save_enriched_data(enriched))
    /\ pc' = "enriched"
    /\ MainFrame

\* line 125
MainSave ==
    /\ pc = "enriched"
    /\ enriched_file' = Some(OpenForWriting(enriched_file)
                             \o save_enriched_data(call.result))
    /\ pc' = "saved"
    /\ UNCHANGED call
    /\ MainFrame

\* line 130: the report is written
MainReport ==
    /\ pc = "saved"
    /\ pc' = "reported"
    /\ UNCHANGED <<call, enriched_file>>
    /\ MainFrame

\* lines 141-144: reading the answers or writing a file raised; the run ends
\* with the message of the handler
MainFails ==
    /\ pc \in {"parsed", "fetched", "enriched", "saved"}
    /\ pc = "parsed" => transactions # <<>>
    /\ pc' = "failed"
    /\ UNCHANGED <<call, enriched_file>>
    /\ MainFrame

MainNext ==
    \/ MainExitNoLines
    \/ MainParse
    \/ MainExitNoTransactions
    \/ MainValidate
    \/ MainExitNoValid
    \/ MainAnalyse
    \/ MainFetch
    \/ MainEnrich
    \/ MainSave
    \/ MainReport
    \/ MainFails

MainSpec == MainInit /\ [][MainNext]_vars

\* ------------------------------------------------------------------ claims
NoFilters == [region |-> None, min_amount |-> None, max_amount |-> None]

StringFields == {"TransactionID", "Date", "ProductID", "ProductName", "CustomerID", "Region"}

\* rule 1: all 8 fields present and non-blank
Rule1(tx) ==
    /\ StringFields \cup {"Quantity", "UnitPrice"} \subseteq DOMAIN tx
    /\ \A f \in StringFields : \E i \in 1..Len(tx[f]) : tx[f][i] # " "

\* rule 2: the three id prefixes
Rule2(tx) ==
    /\ Len(tx.TransactionID) > 0 /\ tx.TransactionID[1] = "T"
    /\ Len(tx.ProductID) > 0 /\ tx.ProductID[1] = "P"
    /\ Len(tx.CustomerID) > 0 /\ tx.CustomerID[1] = "C"

\* rule 3: Quantity is an int and UnitPrice a float
Rule3(tx) ==
    /\ tx.Quantity \in Int
    /\ tx.UnitPrice.k \in {"fin", "nan", "inf", "ninf"}

\* rule 4: Quantity > 0 and UnitPrice > 0
Rule4(tx) == tx.Quantity > 0 /\ FGt(tx.UnitPrice, Fin(0))

PassesAllRules(tx) == Rule1(tx) /\ Rule2(tx) /\ Rule3(tx) /\ Rule4(tx)

\* C1: without filters, validate_and_filter returns exactly the records that
\* pass all four rules (fields present and non-blank, id prefixes T/P/C,
\* numeric Quantity and UnitPrice, both > 0), in order, and invalid_count is
\* the number of records that break at least one rule, each counted once.
C1_ValidIffAllRules ==
    (pc = "validated" /\ filters = NoFilters) =>
        /\ valid_transactions = SelectSeq(transactions, PassesAllRules)
        /\ invalid_count =
              Cardinality({i \in 1..Len(transactions) : ~PassesAllRules(transactions[i])})

InRange(t, f) ==
    /\ f.region # None => t.Region = f.region[1]
    /\ f.min_amount # None => FLe(f.min_amount[1], FMulInt(t.Quantity, t.UnitPrice))
    /\ f.max_amount # None => FLe(FMulInt(t.Quantity, t.UnitPrice), f.max_amount[1])

\* C2: the list validate_and_filter returns is exactly the valid records of
\* the supplied region whose Amount = Quantity * UnitPrice lies in
\* [min_amount, max_amount], both bounds inclusive, an absent bound being no
\* bound.
C2_FilteredExactly ==
    pc = "validated" =>
        LET Kept(t) == PassesAllRules(t) /\ InRange(t, filters)
        IN  valid_transactions = SelectSeq(transactions, Kept)

CountOf(line, c) == Cardinality({i \in 1..Len(line) : line[i] = c})

\* the text of field i of a line, commas and surrounding blanks removed
NumberText(line, i) == Replace(Strip(Split(line, "|")[i]), ",", <<>>)

\* a line of exactly 8 fields whose quantity and price convert
GoodLine(line) ==
    /\ CountOf(line, "|") = 7
    /\ IntOk(NumberText(line, 5))
    /\ FloatOk(NumberText(line, 6))

GoodLines == SelectSeq(raw_lines, GoodLine)

\* C3: parse_transactions returns, in input order, one record for each line
\* of exactly 8 fields with a convertible quantity and price and nothing for
\* any other line; total_input of validate_and_filter is the number of parsed
\* records, so a dropped line is counted neither as valid nor as invalid.
C3_ParseDropsMalformed ==
    /\ pc = "parsed" =>
          LET good == GoodLines
          IN  /\ Len(transactions) = Len(good)
              /\ \A k \in 1..Len(good) :
                    LET parts == Split(good[k], "|")
                    IN  /\ transactions[k].TransactionID = Strip(parts[1])
                        /\ transactions[k].Quantity = IntValue(NumberText(good[k], 5))
                        /\ transactions[k].UnitPrice = FloatValue(NumberText(good[k], 6))
                        /\ transactions[k].Region = Strip(parts[8])
    /\ pc = "validated" =>
          /\ filter_summary.total_input = Len(GoodLines)
          /\ invalid_count + Len(valid_transactions) <= filter_summary.total_input

\* a 7-field line, a line with an unconvertible quantity and a Quantity = 0
\* line: one record is parsed and it is the only one counted
C3_Witness ==
    /\ pc = "validated"
    /\ Len(raw_lines) = 3
    /\ \E i \in 1..3 : CountOf(raw_lines[i], "|") = 6
    /\ \E i \in 1..3 : CountOf(raw_lines[i], "|") = 7 /\ ~GoodLine(raw_lines[i])
    /\ Len(transactions) = 1
    /\ filter_summary.total_input = 1
    /\ invalid_count = 1

\* ---- sums and groups over a record list, for the statements below
NonBlank(str) == \E i \in 1..Len(str) : str[i] # " "

RECURSIVE SumAmount(_, _)
SumAmount(txs, I) ==
    IF I = {} THEN Fin(0)
    ELSE LET i == CHOOSE j \in I : TRUE
         IN  FAdd(FMulInt(txs[i].Quantity, txs[i].UnitPrice), SumAmount(txs, I \ {i}))

RECURSIVE SumQuantity(_, _)
SumQuantity(txs, I) ==
    IF I = {} THEN 0
    ELSE LET i == CHOOSE j \in I : TRUE
         IN  txs[i].Quantity + SumQuantity(txs, I \ {i})

\* the positions of the records of group k of field f, and the first one
Group(txs, f, k) == {i \in 1..Len(txs) : txs[i][f] = k}

FirstOf(txs, f, k) == CHOOSE i \in Group(txs, f, k) : \A j \in Group(txs, f, k) : i <= j

Keys(txs, f) == {txs[i][f] : i \in {j \in 1..Len(txs) : NonBlank(txs[j][f])}}

Abs(x) == IF x < 0 THEN -x ELSE x

Called(op) == pc = "called" /\ call.op = op

\* C4: calculate_total_revenue of the list validate_and_filter returned is
\* the sum of Quantity * UnitPrice over exactly the records of that list,
\* which are the parsed records validate_and_filter did not reject or filter
\* out.
C4_TotalRevenueIsSum ==
    Called("calculate_total_revenue") =>
        LET Kept(i) == \E j \in 1..Len(valid_transactions) :
                          valid_transactions[j] = transactions[i]
        IN  /\ call.txs = valid_transactions
            /\ call.result = SumAmount(call.txs, 1..Len(call.txs))
            /\ call.result = SumAmount(transactions, {i \in 1..Len(transactions) : Kept(i)})

\* three parsed records, one rejected or filtered out, two summed, one of
\* them with a quantity above 1
C4_Witness ==
    /\ Called("calculate_total_revenue")
    /\ Len(transactions) = 3
    /\ Len(valid_transactions) = 2
    /\ valid_transactions[1].Quantity > 1
    /\ call.result.k = "fin"
    /\ call.result.v = valid_transactions[1].Quantity * valid_transactions[1].UnitPrice.v
                       + valid_transactions[2].Quantity * valid_transactions[2].UnitPrice.v

RECURSIVE SumPercentage(_)
SumPercentage(items) ==
    IF items = <<>> THEN Fin(0)
    ELSE FAdd(Head(items).percentage, SumPercentage(Tail(items)))

\* C5: when the grand total is > 0 the percentages of region_wise_sales sum
\* to 100.00 within half a hundredth per region, each being the region's
\* share of the grand total rounded to 2 decimals; with a grand total of 0
\* every percentage is 0.
C5_PercentagesSumTo100 ==
    Called("region_wise_sales") =>
        LET txs   == call.txs
            res   == call.result
            grand == SumAmount(txs, {i \in 1..Len(txs) : NonBlank(txs[i].Region)})
            total == SumPercentage(res)
        IN  /\ FGt(grand, Fin(0)) =>
                /\ total.k = "fin"
                /\ 2 * Abs(total.v - 10000) <= Len(res)
                /\ grand.k = "fin" =>
                      \A i \in 1..Len(res) :
                         LET share == SumAmount(txs, Group(txs, "Region", res[i].key))
                         IN  2 * Abs(res[i].percentage.v * grand.v - 10000 * share.v)
                                <= grand.v
            /\ FEq(grand, Fin(0)) => \A i \in 1..Len(res) : res[i].percentage = Fin(0)

\* C6: region_wise_sales lists every region once with its summed amount, by
\* total_sales descending, regions with equal total_sales in the order of
\* their first record.
C6_RegionsDescendingStable ==
    Called("region_wise_sales") =>
        LET txs == call.txs
            res == call.result
        IN  /\ {res[i].key : i \in 1..Len(res)} = Keys(txs, "Region")
            /\ Len(res) = Cardinality(Keys(txs, "Region"))
            /\ \A i \in 1..Len(res) :
                  res[i].total_sales = SumAmount(txs, Group(txs, "Region", res[i].key))
            /\ \A i \in 1..Len(res) - 1 : FLe(res[i + 1].total_sales, res[i].total_sales)
            /\ \A i, j \in 1..Len(res) :
                  (i < j /\ FEq(res[i].total_sales, res[j].total_sales))
                     => FirstOf(txs, "Region", res[i].key) < FirstOf(txs, "Region", res[j].key)

ProductPair(txs, name) ==
    <<SumQuantity(txs, Group(txs, "ProductName", name)),
      SumAmount(txs, Group(txs, "ProductName", name))>>

\* the pair a is larger than the pair b
PairGreater(a, b) == a[1] > b[1] \/ (a[1] = b[1] /\ FGt(a[2], b[2]))

\* every entry is a distinct product of the list with its summed quantity
\* and revenue
ProductEntriesRight(txs, res) ==
    /\ \A i \in 1..Len(res) :
          /\ res[i].name \in Keys(txs, "ProductName")
          /\ <<res[i].qty, res[i].revenue>> = ProductPair(txs, res[i].name)
    /\ \A i, j \in 1..Len(res) : i # j => res[i].name # res[j].name

\* C7: top_selling_products(n) returns at most n products, by quantity
\* descending and revenue descending among equal quantities, and no product
\* left out has a larger (quantity, revenue) pair than a product returned.
C7_TopSellingOrdered ==
    Called("top_selling_products") =>
        LET txs == call.txs
            res == call.result
        IN  /\ Len(res) <= call.n
            /\ ProductEntriesRight(txs, res)
            /\ \A i \in 1..Len(res) - 1 :
                  /\ res[i].qty >= res[i + 1].qty
                  /\ res[i].qty = res[i + 1].qty => FLe(res[i + 1].revenue, res[i].revenue)
            /\ \A name \in Keys(txs, "ProductName") \ {res[i].name : i \in 1..Len(res)} :
                  \A i \in 1..Len(res) :
                     ~PairGreater(ProductPair(txs, name), <<res[i].qty, res[i].revenue>>)

\* C8: low_performing_products returns exactly the products whose summed
\* quantity is strictly below the threshold, by quantity ascending and
\* revenue ascending among equal quantities.
C8_LowPerformingExact ==
    Called("low_performing_products") =>
        LET txs == call.txs
            res == call.result
        IN  /\ ProductEntriesRight(txs, res)
            /\ {res[i].name : i \in 1..Len(res)}
                  = {name \in Keys(txs, "ProductName") :
                        ProductPair(txs, name)[1] < call.threshold}
            /\ \A i \in 1..Len(res) - 1 :
                  /\ res[i].qty <= res[i + 1].qty
                  /\ res[i].qty = res[i + 1].qty => FLe(res[i].revenue, res[i + 1].revenue)

\* C9: find_peak_sales_day returns the date of maximal summed revenue with
\* that revenue and its number of records, the first such date of the input
\* when several share the maximum, and (None, 0.0, 0) for an empty list.
C9_PeakDayFirstMaximum ==
    Called("find_peak_sales_day") =>
        LET txs == call.txs
            res == call.result
            Revenue(d) == SumAmount(txs, Group(txs, "Date", d))
        IN  /\ txs = <<>> => res = [date |-> None, revenue |-> Fin(0), count |-> 0]
            /\ Keys(txs, "Date") # {} =>
                  /\ res.date # None
                  /\ res.date[1] \in Keys(txs, "Date")
                  /\ res.revenue = Revenue(res.date[1])
                  /\ res.count = Cardinality(Group(txs, "Date", res.date[1]))
                  /\ \A d \in Keys(txs, "Date") :
                        /\ FLe(Revenue(d), res.revenue)
                        /\ FEq(Revenue(d), res.revenue)
                              => FirstOf(txs, "Date", res.date[1]) <= FirstOf(txs, "Date", d)

\* ProductID is P followed by decimal digits only; the number they spell
IsPNumber(pid) ==
    /\ Len(pid) >= 2
    /\ pid[1] = "P"
    /\ \A i \in 2..Len(pid) : pid[i] \in Digits

RECURSIVE PNumber(_, _)
PNumber(pid, i) == IF i < 2 THEN 0 ELSE 10 * PNumber(pid, i - 1) + DigitVal(pid[i])

\* C10: enrich_sales_data sets API_Match and copies category, brand and
\* rating of the mapping entry exactly when ProductID is P followed by
\* digits only and that number is a key of the mapping; otherwise the three
\* fields are None and API_Match is false.
C10_EnrichMatchIff ==
    Called("enrich_sales_data") =>
        LET map == call.product_mapping
            res == call.result
        IN  /\ Len(res) = Len(call.txs)
            /\ \A i \in 1..Len(res) :
                  LET pid == call.txs[i].ProductID
                      hit == IsPNumber(pid) /\ PNumber(pid, Len(pid)) \in DOMAIN map
                  IN  IF hit
                      THEN /\ res[i].API_Match = TRUE
                           /\ res[i].API_Category = map[PNumber(pid, Len(pid))].category
                           /\ res[i].API_Brand = map[PNumber(pid, Len(pid))].brand
                           /\ res[i].API_Rating = map[PNumber(pid, Len(pid))].rating
                      ELSE /\ res[i].API_Match = FALSE
                           /\ res[i].API_Category = None
                           /\ res[i].API_Brand = None
                           /\ res[i].API_Rating = None

\* P101 with 101 -> laptops/Apple/4.7 is matched, next to a numeric id that
\* is no key of the mapping and an id that is not numeric
C10_Witness ==
    /\ Called("enrich_sales_data")
    /\ Len(call.result) = 3
    /\ \E i \in 1..3 :
          /\ call.txs[i].ProductID = P101
          /\ call.result[i].API_Match
          /\ call.result[i].API_Category = Some(Laptops)
          /\ call.result[i].API_Brand = Some(Apple)
          /\ call.result[i].API_Rating = Some(Fin(470))
    /\ \E i \in 1..3 :
          /\ IsPNumber(call.txs[i].ProductID)
          /\ ~call.result[i].API_Match
    /\ \E i \in 1..3 :
          /\ ~IsPNumber(call.txs[i].ProductID)
          /\ ~call.result[i].API_Match

\* the 8 fields parse_transactions gives a record
OriginalFields == StringFields \cup {"Quantity", "UnitPrice"}

\* int() of the digits after the P raises: str.isdigit accepted a character
\* that is no decimal digit
EnrichmentRaises(tx) ==
    /\ Len(tx.ProductID) >= 2
    /\ tx.ProductID[1] = "P"
    /\ \A i \in 2..Len(tx.ProductID) : tx.ProductID[i] \in Digits \cup {"²"}
    /\ \E i \in 2..Len(tx.ProductID) : tx.ProductID[i] \notin Digits

\* C11: a call of enrich_sales_data leaves the parsed and the validated
\* records as they were and returns one record per input record, in order,
\* that carries the 8 original fields unchanged next to the 4 enrichment
\* fields; a record whose enrichment raises is still returned, with None
\* enrichment fields and API_Match false.
C11_EnrichKeepsSourceRecords ==
    [][(pc = "validated" /\ pc' = "called" /\ call'.op = "enrich_sales_data") =>
          /\ UNCHANGED <<transactions, valid_transactions>>
          /\ call'.txs = valid_transactions
          /\ Len(call'.result) = Len(valid_transactions)
          /\ \A i \in 1..Len(valid_transactions) :
                /\ DOMAIN valid_transactions[i] = OriginalFields
                /\ DOMAIN call'.result[i] = OriginalFields \cup DOMAIN ApiDefaults
                /\ \A f \in OriginalFields :
                      call'.result[i][f] = valid_transactions[i][f]
                /\ EnrichmentRaises(valid_transactions[i]) =>
                      \A f \in DOMAIN ApiDefaults : call'.result[i][f] = ApiDefaults[f]
      ]_vars

\* a record whose enrichment raises was enriched between two records that
\* match the mapping
C11_Witness ==
    /\ Called("enrich_sales_data")
    /\ Len(call.result) = 3
    /\ valid_transactions = call.txs
    /\ EnrichmentRaises(call.txs[2])
    /\ ~call.result[2].API_Match
    /\ call.result[1].API_Match
    /\ call.result[3].API_Match

\* C12: enrich_sales_data run a second time on the same validated list and
\* the same mapping returns the list of the first run and leaves the
\* enriched file with the content the first run wrote.
C12_EnrichIdempotent ==
    (Called("enrich_sales_data") /\ call.run = 2) =>
        /\ call.result = call.first_result
        /\ enriched_file = call.first_file
        /\ enriched_file = Some(save_enriched_data(call.result))

\* a second run over three records, one of them matched, with a file of
\* three data lines
C12_Witness ==
    /\ Called("enrich_sales_data")
    /\ call.run = 2
    /\ Len(call.result) = 3
    /\ \E i \in 1..3 : call.result[i].API_Match
    /\ \E i \in 1..3 : ~call.result[i].API_Match
    /\ enriched_file # None
    /\ Len(enriched_file[1]) = 3

\* the records parse_transactions reads from lines are, one for one, the 8
\* original fields of the enriched records
ReadsBack(lines, enriched) ==
    LET parsed == parse_transactions(lines)
    IN  /\ Len(parsed) = Len(enriched)
        /\ \A i \in 1..Len(enriched) :
              /\ DOMAIN parsed[i] = OriginalFields
              /\ \A f \in OriginalFields : parsed[i][f] = enriched[i][f]

\* a data line cut to its first 8 columns
FirstColumns(line) == Join(SubSeq(Split(line, "|"), 1, expected_fields), "|")

\* C13 as stated: parse_transactions applied to the data lines that
\* save_enriched_data wrote returns the 8 original fields of the enriched
\* records, record for record.
C13_RoundTripThroughParser ==
    Called("enrich_sales_data") => ReadsBack(enriched_file[1], call.result)

\* C13, amended: parse_transactions applied to the written data lines, each
\* cut to its first 8 columns, returns the 8 original fields of the enriched
\* records, record for record.
C13_RoundTripOfFirstColumns ==
    Called("enrich_sales_data") =>
        ReadsBack([i \in 1..Len(enriched_file[1]) |-> FirstColumns(enriched_file[1][i])],
                  call.result)

\* three records were written, among them a price with a fraction, a name
\* with a blank in it and a matched record with all four added columns
C13_Witness ==
    /\ Called("enrich_sales_data")
    /\ Len(call.result) = 3
    /\ enriched_file # None
    /\ Len(enriched_file[1]) = 3
    /\ \E i \in 1..3 : /\ call.result[i].UnitPrice.k = "fin"
                       /\ call.result[i].UnitPrice.v % 100 # 0
                       /\ \E j \in 1..Len(call.result[i].ProductName) :
                             call.result[i].ProductName[j] = " "
    /\ \E i \in 1..3 : /\ call.result[i].API_Match
                       /\ call.result[i].API_Brand # None
                       /\ Len(Split(enriched_file[1][i], "|")) = 12

\* the steps of main after the two checks for an empty list
LaterSteps == {"analysed", "fetched", "enriched", "saved", "reported"}

\* the run is at a check that finds its list empty
AtEmptyCheck ==
    \/ pc = "parsed" /\ transactions = <<>>
    \/ pc = "validated" /\ valid_transactions = <<>>

\* C14: in a run of main, once the parsed list or the validated list is
\* found empty the only step left is the exit of that check, after which the
\* run takes no step; from then on no later step is taken and no enriched
\* file is written.  Whenever a later step was taken or the file is written,
\* the validated list holds at least one record.
C14_EmptyListEndsRun ==
    /\ [](AtEmptyCheck => [](pc \notin LaterSteps /\ enriched_file = None))
    /\ []((pc \in LaterSteps \/ enriched_file # None) => Len(valid_transactions) >= 1)
    /\ [][/\ pc \notin {"no_lines", "no_transactions", "no_valid"}
          /\ (pc = "parsed" /\ transactions = <<>>) => pc' = "no_transactions"
          /\ (pc = "validated" /\ valid_transactions = <<>>) => pc' = "no_valid"]_vars

\* two lines were parsed, validation with filters left none, and the run
\* ended at that check with no enriched file
C14_Witness ==
    /\ pc = "no_valid"
    /\ Len(transactions) = 2
    /\ valid_transactions = <<>>
    /\ filter_summary.invalid = 1
    /\ filter_summary.filtered_by_region + filter_summary.filtered_by_amount = 1
    /\ enriched_file = None

\* the amount of t lies in the range the filters give
AmountInRange(t, f) ==
    /\ f.min_amount # None => FLe(f.min_amount[1], FMulInt(t.Quantity, t.UnitPrice))
    /\ f.max_amount # None => FLe(FMulInt(t.Quantity, t.UnitPrice), f.max_amount[1])

\* C15: filtered_by_region is the number of records passing validation whose
\* Region differs from the supplied region, filtered_by_amount the number of
\* those with the supplied region (or any, when none is supplied) whose
\* Amount lies outside [min_amount, max_amount]; a record failing both
\* filters counts under filtered_by_region only, and a filter that is not
\* supplied counts 0.
C15_RemovalsCountedPerStage ==
    pc = "validated" =>
        LET valid == validate_and_filter(transactions, None, None, None).filtered
            RegionOk(i) == filters.region # None => valid[i].Region = filters.region[1]
        IN  /\ filter_summary.filtered_by_region
                  = Cardinality({i \in 1..Len(valid) : ~RegionOk(i)})
            /\ filter_summary.filtered_by_amount
                  = Cardinality({i \in 1..Len(valid) :
                                    RegionOk(i) /\ ~AmountInRange(valid[i], filters)})

\* C16: daily_sales_trend returns one entry per distinct Date, strictly
\* ascending by the date string, with the summed Amount of the date's
\* records as revenue, their number as transaction_count and the number of
\* distinct CustomerID among them as unique_customers, never more than
\* transaction_count.
C16_DailyTrendPerDate ==
    Called("daily_sales_trend") =>
        LET txs == call.txs
            res == call.result
        IN  /\ {res[i].key : i \in 1..Len(res)} = Keys(txs, "Date")
            /\ Len(res) = Cardinality(Keys(txs, "Date"))
            /\ \A i \in 1..Len(res) - 1 : StrLess(res[i].key, res[i + 1].key)
            /\ \A i \in 1..Len(res) :
                  LET group == Group(txs, "Date", res[i].key)
                  IN  /\ res[i].revenue = SumAmount(txs, group)
                      /\ res[i].transaction_count = Cardinality(group)
                      /\ res[i].unique_customers
                            = Cardinality({txs[j].CustomerID : j \in group})
                      /\ res[i].unique_customers <= res[i].transaction_count

\* the later date comes first in the input and last in the result, where it
\* holds two records of one customer
C16_Witness ==
    /\ Called("daily_sales_trend")
    /\ Len(call.txs) = 3
    /\ Len(call.result) = 2
    /\ call.txs[1].Date = call.result[2].key
    /\ call.result[2].transaction_count = 2
    /\ call.result[2].unique_customers = 1
    /\ call.result[2].revenue.k = "fin"
    /\ call.result[2].revenue.v > 0

\* C17: customer_analysis returns one entry per distinct CustomerID, by
\* total_spent descending, with the summed Amount of the customer's records
\* as total_spent, their number (at least 1) as purchase_count, total_spent
\* / purchase_count rounded to 2 decimals (within half a hundredth) as
\* avg_order_value and the customer's product names, each once and in
\* ascending order, as products_bought.
C17_CustomersByTotalSpent ==
    Called("customer_analysis") =>
        LET txs == call.txs
            res == call.result
        IN  /\ {res[i].key : i \in 1..Len(res)} = Keys(txs, "CustomerID")
            /\ Len(res) = Cardinality(Keys(txs, "CustomerID"))
            /\ \A i \in 1..Len(res) - 1 : FLe(res[i + 1].total_spent, res[i].total_spent)
            /\ \A i \in 1..Len(res) :
                  LET group == Group(txs, "CustomerID", res[i].key)
                      names == res[i].products_bought
                  IN  /\ res[i].total_spent = SumAmount(txs, group)
                      /\ res[i].purchase_count = Cardinality(group)
                      /\ res[i].purchase_count >= 1
                      /\ res[i].avg_order_value.k = res[i].total_spent.k
                      /\ res[i].total_spent.k = "fin" =>
                            2 * Abs(res[i].avg_order_value.v * res[i].purchase_count
                                    - res[i].total_spent.v) <= res[i].purchase_count
                      /\ {names[j] : j \in 1..Len(names)}
                            = {txs[j].ProductName : j \in group}
                      /\ \A j \in 1..Len(names) - 1 : StrLess(names[j], names[j + 1])

\* sub is full with some records left out, the others in their order
RECURSIVE IsSubList(_, _)
IsSubList(sub, full) ==
    IF sub = <<>> THEN TRUE
    ELSE IF full = <<>> THEN FALSE
    ELSE IF Head(sub) = Head(full) THEN IsSubList(Tail(sub), Tail(full))
    ELSE IsSubList(sub, Tail(full))

\* the list validate_and_filter returns for the lines read and the filters
\* in force, when nothing else was called before
FirstValid ==
    validate_and_filter(parse_transactions(raw_lines), filters.region,
                        filters.min_amount, filters.max_amount).filtered

\* the result of the aggregation call c on the list txs
ResultOn(c, txs) ==
    CASE c.op = "calculate_total_revenue" -> calculate_total_revenue(txs)
      [] c.op = "region_wise_sales" -> region_wise_sales(txs)
      [] c.op = "top_selling_products" -> top_selling_products(txs, c.n)
      [] c.op = "customer_analysis" -> customer_analysis(txs)
      [] c.op = "daily_sales_trend" -> daily_sales_trend(txs)
      [] c.op = "find_peak_sales_day" -> find_peak_sales_day(txs)
      [] c.op = "low_performing_products" -> low_performing_products(txs, c.threshold)

\* C18: whatever aggregation calls and calls of validate_and_filter came
\* before, in whatever order, the parsed list is the list parse_transactions
\* returned and the validated list is the list validate_and_filter returns
\* for it, an order-preserving sub-list of the parsed list; no step of a call
\* changes the list it is given; and the result of a call is the result the
\* same call gives when it is the first call.
C18_CallsLeaveRecordsUnchanged ==
    /\ [](pc \in {"parsed", "validated", "called"} =>
             transactions = parse_transactions(raw_lines))
    /\ [](pc \in {"validated", "called"} =>
             /\ valid_transactions = FirstValid
             /\ IsSubList(valid_transactions, transactions))
    /\ [](pc = "called" =>
             /\ call.txs = FirstValid
             /\ call.result = ResultOn(call, FirstValid))
    /\ [][/\ pc # "start" => transactions' = transactions
          /\ pc' = "called" => valid_transactions' = valid_transactions]_vars

\* a call of top_selling_products has returned after validation left two of
\* three parsed records, and the next call can start
C18_Witness ==
    /\ pc = "validated"
    /\ call # NoCall
    /\ call.op = "top_selling_products"
    /\ Len(transactions) = 3
    /\ Len(valid_transactions) = 2
    /\ valid_transactions = call.txs


\* C19: in the summary validate_and_filter returns, total_input is the sum
\* of invalid, filtered_by_region, filtered_by_amount and final_count;
\* final_count is the length of the returned list; and the returned
\* invalid_count is the summary's invalid.
C19_SummaryAccountsForEveryRecord ==
    pc = "validated" =>
        /\ filter_summary.total_input = Len(transactions)
        /\ filter_summary.total_input =
              filter_summary.invalid + filter_summary.filtered_by_region
              + filter_summary.filtered_by_amount + filter_summary.final_count
        /\ filter_summary.final_count = Len(valid_transactions)
        /\ invalid_count = filter_summary.invalid

\* three records went in: one rejected, one removed by the region filter
\* and one by the amount filter
C19_Witness ==
    /\ pc = "validated"
    /\ filter_summary.total_input = 3
    /\ filter_summary.invalid = 1
    /\ filter_summary.filtered_by_region = 1
    /\ filter_summary.filtered_by_amount = 1
    /\ filter_summary.final_count = 0
    /\ valid_transactions = <<>>

====
